---- MODULE Spec2Model ----
(***************************************************************************)
(* A model of typedecorator (src/typedecorator/__init__.py): the type      *)
(* signature grammar with its validity check, stringifier and matcher, and *)
(* the @returns / @params / @typed decorators with the wrappers they       *)
(* produce.                                                                *)
(*                                                                         *)
(* Python objects (values and type signatures alike: a signature is an     *)
(* ordinary Python object) are records [kind, name, args]:                 *)
(*   kind "type"   a class object, name = its __name__                     *)
(*   kind "str"    a string, name = its characters                         *)
(*   kind "int"    an integer, name = its decimal digits                   *)
(*   kind "bool"   True / False                                            *)
(*   kind "none"   None                                                    *)
(*   kind "list" / "tuple" / "set"   args = the elements                   *)
(*   kind "dict"   args = the items, each of kind "item" with args <<k,v>> *)
(*   kind "Union" / "Enum"   args = the members given to the constructor   *)
(*   kind "mock"   an instance of mock.Mock                                *)
(***************************************************************************)
EXTENDS Integers, Sequences, FiniteSets, TLC

VARIABLES
    sig,        \* the type signature handed to a pure function
    val,        \* the value handed to the matcher
    out,        \* what the last pure function application produced
    loglevel,   \* module global _loglevel ("None" or a logging level)
    exception,  \* module global _exception ("None" or "TypeError")
    heap,       \* function objects: heap[i] is the function with identity i
    decos,      \* decorator closures returned by returns(...) / params(...)
    held,       \* the closures the program holds a reference to
    last        \* what the last decorator operation or call did

vars == <<sig, val, out, loglevel, exception, heap, decos, held, last>>

pureVars == <<sig, val, out>>
progVars == <<loglevel, exception, heap, decos, held, last>>

----------------------------------------------------------------------------
(* Python objects *)

Obj(k, n, a) == [kind |-> k, name |-> n, args |-> a]
TypeObj(n) == Obj("type", n, <<>>)
StrObj(s) == Obj("str", s, <<>>)
IntObj(s) == Obj("int", s, <<>>)
BoolObj(s) == Obj("bool", s, <<>>)
NoneObj == Obj("none", "None", <<>>)
MockObj == Obj("mock", "", <<>>)
ListObj(a) == Obj("list", "", a)
TupleObj(a) == Obj("tuple", "", a)
SetObj(a) == Obj("set", "", a)
ItemObj(k, v) == Obj("item", "", <<k, v>>)
DictObj(items) == Obj("dict", "", items)

\* class Union / Nullable / class Enum
Union(types) == Obj("Union", "", types)
NoneType == TypeObj("NoneType")
Nullable(t) == Union(<<t, NoneType>>)
Enum(enums) == Obj("Enum", "", enums)

range_type == TypeObj("range")
string_type == "str"

Range(s) == {s[i] : i \in 1..Len(s)}

\* obj.__class__.__name__
ClassName(v) ==
    CASE v.kind = "type" -> "type"
      [] v.kind = "none" -> "NoneType"
      [] v.kind = "mock" -> "Mock"
      [] OTHER -> v.kind

\* type(obj).mro(), by class name
Mro(cls) ==
    CASE cls = "object" -> <<"object">>
      [] cls = "bool" -> <<"bool", "int", "object">>
      [] cls = "Mock" -> <<"Mock", "CallableMixin", "NonCallableMock", "Base", "object">>
      [] OTHER -> <<cls, "object">>

\* isinstance(v, cls) for a class object named cls
IsInstance(v, cls) == cls \in Range(Mro(ClassName(v)))

class_tree(obj) == <<ClassName(obj)>> \o Mro(ClassName(obj))

\* hasattr(v, '__iter__') and callable(v.__iter__)  (Python 3: str iterates)
HasIter(v) == v.kind \in {"str", "list", "tuple", "set", "dict", "Union", "Enum"}

\* Python's ==: identity for class objects, by value otherwise; True == 1
NumKey(v) ==
    CASE v.kind = "bool" /\ v.name = "True" -> "1"
      [] v.kind = "bool" /\ v.name = "False" -> "0"
      [] OTHER -> v.name
PyEq(a, b) ==
    IF a.kind \in {"int", "bool"} /\ b.kind \in {"int", "bool"}
    THEN NumKey(a) = NumKey(b)
    ELSE a = b

----------------------------------------------------------------------------
(* _constraint_to_string: the rendering, or the TypeError it raises *)

Rendered(s) == [raised |-> FALSE, str |-> s]
RenderError == [raised |-> TRUE, str |-> "Invalid type signature"]

RECURSIVE JoinRendered(_, _)
\* ', '.join(_constraint_to_string(x) for x in t): the first raise wins
JoinRendered(parts, i) ==
    IF i > Len(parts) THEN Rendered("")
    ELSE IF parts[i].raised THEN RenderError
    ELSE LET rest == JoinRendered(parts, i + 1) IN
         IF rest.raised THEN RenderError
         ELSE IF i = Len(parts) THEN Rendered(parts[i].str)
         ELSE Rendered(parts[i].str \o ", " \o rest.str)

Wrapped(open, r, close) ==
    IF r.raised THEN RenderError ELSE Rendered(open \o r.str \o close)

\* _constraint_to_string without its Enum branch
RendersEnumNever(t) == FALSE
\* "elif isinstance(t, Enum):" in _constraint_to_string
RendersEnum(t) == t.kind = "Enum"

RECURSIVE _constraint_to_string(_)
_constraint_to_string(t) ==
    IF t.kind = "type" THEN Rendered(t.name)
    ELSE IF t.kind = string_type THEN Rendered(t.name)
    ELSE IF t.kind = "list" /\ Len(t.args) = 1
        THEN Wrapped("[", _constraint_to_string(t.args[1]), "]")
    ELSE IF t.kind = "tuple"
        THEN Wrapped("(", JoinRendered([i \in 1..Len(t.args) |->
                              _constraint_to_string(t.args[i])], 1), ")")
    ELSE IF t.kind = "dict" /\ Len(t.args) = 1
        THEN LET k == _constraint_to_string(t.args[1].args[1])
                 v == _constraint_to_string(t.args[1].args[2])
             IN IF k.raised \/ v.raised THEN RenderError
                ELSE Rendered("{" \o k.str \o ":" \o v.str \o "}")
    ELSE IF t.kind = "set" /\ Len(t.args) = 1
        THEN Wrapped("{", _constraint_to_string(t.args[1]), "}")
    ELSE IF t.kind = "Union"
        THEN Wrapped("U(", JoinRendered([i \in 1..Len(t.args) |->
                              _constraint_to_string(t.args[i])], 1), ")")
    ELSE IF RendersEnum(t)
        THEN Wrapped("Enum[", JoinRendered([i \in 1..Len(t.args) |->
                              _constraint_to_string(t.args[i])], 1), "]")
    ELSE RenderError

----------------------------------------------------------------------------
(* _check_constraint_validity: TRUE when it returns (it only ever returns  *)
(* True), FALSE when it raises TypeError('Invalid type signature')         *)

RECURSIVE _check_constraint_validity(_)
_check_constraint_validity(t) ==
    IF t.kind = "type" THEN TRUE
    ELSE IF t.kind = string_type THEN TRUE
    ELSE IF t.kind = "list" /\ Len(t.args) = 1
        THEN _check_constraint_validity(t.args[1])
    ELSE IF t.kind = "tuple"
        THEN \A i \in 1..Len(t.args) : _check_constraint_validity(t.args[i])
    ELSE IF t.kind = "dict" /\ Len(t.args) = 1
        THEN /\ _check_constraint_validity(t.args[1].args[1])
             /\ _check_constraint_validity(t.args[1].args[2])
    ELSE IF t.kind = "set" /\ Len(t.args) = 1
        THEN _check_constraint_validity(t.args[1])
    ELSE IF t.kind = "Union"
        THEN \A i \in 1..Len(t.args) : _check_constraint_validity(t.args[i])
    ELSE IF t.kind = "Enum"
        THEN \A i \in 1..Len(t.args) : _check_constraint_validity(t.args[i])
    ELSE FALSE

----------------------------------------------------------------------------
(* _verify_type_constraint, for signatures that passed the validity check  *)
(* (the only ones a wrapper ever holds)                                    *)

RECURSIVE _verify_type_constraint(_, _)

\* the dict branch keeping only the keys' check
VerifyDictKeysOnly(v, t) ==
    LET tk == t.args[1].args[1]
    IN \A i \in 1..Len(v.args) : _verify_type_constraint(v.args[i].args[1], tk)

\* tk, tv = list(t.items())[0]
\* all(verify(vk, tk) and verify(vv, tv) for vk, vv in v.items())
VerifyDict(v, t) ==
    LET tk == t.args[1].args[1]
        tv == t.args[1].args[2]
    IN \A i \in 1..Len(v.args) :
           /\ _verify_type_constraint(v.args[i].args[1], tk)
           /\ _verify_type_constraint(v.args[i].args[2], tv)

_verify_type_constraint(v, t) ==
    IF v.kind = "mock" THEN TRUE
    ELSE IF t.kind = "Enum"
        THEN \E i \in 1..Len(t.args) : PyEq(t.args[i], v)
    ELSE IF t = range_type /\ HasIter(v) THEN TRUE
    ELSE IF t.kind = "type" THEN IsInstance(v, t.name)
    ELSE IF t.kind = string_type /\ t.name \in Range(class_tree(v)) THEN TRUE
    ELSE IF t.kind = "list" /\ v.kind = "list"
        THEN \A i \in 1..Len(v.args) : _verify_type_constraint(v.args[i], t.args[1])
    ELSE IF t.kind = "tuple" /\ v.kind = "tuple" /\ Len(t.args) = Len(v.args)
        THEN \A i \in 1..Len(v.args) : _verify_type_constraint(v.args[i], t.args[i])
    ELSE IF t.kind = "dict" /\ v.kind = "dict" THEN VerifyDict(v, t)
    ELSE IF t.kind = "set" /\ v.kind = "set"
        THEN LET tx == t.args[1]
             IN \A i \in 1..Len(v.args) : _verify_type_constraint(v.args[i], tx)
    ELSE IF t.kind = "Union"
        THEN \E i \in 1..Len(t.args) : _verify_type_constraint(v, t.args[i])
    ELSE FALSE

----------------------------------------------------------------------------
(* Function objects, decorator closures and the module globals *)

ModuleFile == "typedecorator/__init__.py"
ReturnsWrapperLine == 244   \* def wrapper(*args, **kwargs) inside returns.deco
ParamsWrapperLine == 321    \* def wrapper(*args, **kwargs) inside params.deco

NoSite == [file |-> "", line |-> 0, name |-> "", instr |-> ""]
NoTypes == [n \in {} |-> NoneObj]

\* A function written by the user: def name(arg_names..., *, kwonly..., **kw)
\* in some file at some line, with the annotations ann (name -> object,
\* "return" for the return annotation).  Python 3 gives every function an
\* __annotations__ dict, empty when nothing is annotated.
DefFunction(name, file, line, arg_names, kwonly, va_kwargs, ann) ==
    [kind |-> "def", name |-> name, code |-> [file |-> file, line |-> line],
     arg_names |-> arg_names, kwonly |-> kwonly, va_kwargs |-> va_kwargs,
     has_def_site |-> FALSE, def_site |-> NoSite,
     has_return_type |-> FALSE, return_type |-> NoneObj,
     has_annotations |-> TRUE, annotations |-> ann,
     fn |-> 0, deco |-> 0]

\* The function object "def wrapper(*args, **kwargs)" made by one run of
\* returns.deco or params.deco: fn is the closure's fn, deco the closure of
\* the enclosing returns(...) / params(...) call (return_type / types).
WrapperFunction(kind, line, fn, deco) ==
    [kind |-> kind, name |-> "wrapper", code |-> [file |-> ModuleFile, line |-> line],
     arg_names |-> <<>>, kwonly |-> {}, va_kwargs |-> TRUE,
     has_def_site |-> FALSE, def_site |-> NoSite,
     has_return_type |-> FALSE, return_type |-> NoneObj,
     has_annotations |-> TRUE, annotations |-> NoTypes,
     fn |-> fn, deco |-> deco]

\* The closure of one returns(return_type) or params(**types) call
ReturnsClosure(return_type) == [kind |-> "returns", return_type |-> return_type, types |-> NoTypes]
ParamsClosure(types) == [kind |-> "params", return_type |-> NoneObj, types |-> types]

\* void = returns(type(None)), made when the module is imported
void == 1

----------------------------------------------------------------------------
(* _type_error: the log entries it emits and whether it raises *)

\* traceback.extract_stack()[-4], the frame used when no stack is given
CallerFrame == [file |-> "<caller>", line |-> 0, name |-> "<caller>", instr |-> "<call>"]

\* 'File "%s", line %d, in %s: %s%s' % (path, line, in_func, msg, instr)
LogEntry(st, msg) ==
    [file |-> st.file, line |-> st.line, in_func |-> st.name,
     msg |-> IF st.instr # "" THEN msg \o ": " \o st.instr ELSE msg]

\* _type_error raising whether or not an exception is configured
_type_error_always_raises(msg, has_stack, stack) ==
    [logs |-> IF loglevel # "None"
              THEN LET st == IF has_stack THEN stack ELSE CallerFrame
                   IN <<LogEntry(st, msg)>>
              ELSE <<>>,
     raised |-> TRUE]

_type_error(msg, has_stack, stack) ==
    [logs |-> IF loglevel # "None"
              THEN LET st == IF has_stack THEN stack ELSE CallerFrame
                   IN <<LogEntry(st, msg)>>
              ELSE <<>>,
     raised |-> exception # "None"]

----------------------------------------------------------------------------
(* repr(value) *)

RECURSIVE JoinStr(_, _)
JoinStr(parts, i) ==
    IF i > Len(parts) THEN ""
    ELSE IF i = Len(parts) THEN parts[i]
    ELSE parts[i] \o ", " \o JoinStr(parts, i + 1)

RECURSIVE Repr(_)
Repr(v) ==
    CASE v.kind = "str" -> "'" \o v.name \o "'"
      [] v.kind = "type" -> "<class '" \o v.name \o "'>"
      [] v.kind = "list" -> "[" \o JoinStr([i \in 1..Len(v.args) |-> Repr(v.args[i])], 1) \o "]"
      [] v.kind = "tuple" -> "(" \o JoinStr([i \in 1..Len(v.args) |-> Repr(v.args[i])], 1) \o ")"
      [] v.kind = "set" -> "{" \o JoinStr([i \in 1..Len(v.args) |-> Repr(v.args[i])], 1) \o "}"
      [] v.kind = "dict" -> "{" \o JoinStr([i \in 1..Len(v.args) |-> Repr(v.args[i])], 1) \o "}"
      [] v.kind = "item" -> Repr(v.args[1]) \o ": " \o Repr(v.args[2])
      [] v.kind = "mock" -> "<Mock>"
      [] v.kind \in {"Union", "Enum"} -> "<typedecorator." \o v.kind \o " object>"
      [] OTHER -> v.name

----------------------------------------------------------------------------
(* Calling a function object *)

\* What one call produces: an exception (raised, with its message and where
\* it came from: "check" = _type_error, "render" = _constraint_to_string,
\* "host" = the interpreter binding the arguments) or a return value; the
\* log entries emitted; and the invocations of the user's function.
Returned(retval, logs, invoked) ==
    [raised |-> FALSE, msg |-> "", by |-> "", retval |-> retval, logs |-> logs, invoked |-> invoked]
Raised(by, msg, logs, invoked) ==
    [raised |-> TRUE, msg |-> msg, by |-> by, retval |-> NoneObj, logs |-> logs, invoked |-> invoked]

KwNames(kwargs) == {kwargs[i].name : i \in 1..Len(kwargs)}

\* The interpreter binding f(*args, **kwargs) to def f(arg_names, *, kwonly, **kw)
Bindable(f, args, kwargs) ==
    /\ Len(args) <= Len(f.arg_names)
    /\ \A i \in 1..Len(f.arg_names) :
          IF i <= Len(args) THEN f.arg_names[i] \notin KwNames(kwargs)
                            ELSE f.arg_names[i] \in KwNames(kwargs)
    /\ f.va_kwargs \/ KwNames(kwargs) \subseteq (Range(f.arg_names) \cup f.kwonly)

\* the user's function body: it returns ret
CallDef(f, args, kwargs, ret) ==
    IF Bindable(f, args, kwargs)
    THEN Returned(ret, <<>>, <<[args |-> args, kwargs |-> kwargs]>>)
    ELSE Raised("host", "unexpected arguments", <<>>, <<>>)

\* returns.deco.wrapper, after retval = fn(*args, **kwargs) gave inner
ReturnsCheck(w, inner) ==
    LET return_type == decos[w.deco].return_type
        retval == inner.retval
        site == heap[w.fn].def_site
    IN  IF inner.raised THEN inner
        ELSE IF _verify_type_constraint(retval, return_type) THEN inner
        ELSE LET rendered == _constraint_to_string(return_type)
                 plain == (retval = NoneObj /\ return_type # NoneType)
                              \/ (retval # NoneObj /\ return_type = NoneType)
                 msg == IF retval = NoneObj /\ return_type # NoneType
                            THEN "non-void function didn't return a value"
                        ELSE IF retval # NoneObj /\ return_type = NoneType
                            THEN "void function returned a value"
                        ELSE "function returned value " \o Repr(retval)
                                 \o " not matching signature " \o rendered.str
                 te == _type_error(msg, TRUE, site)
             IN  IF ~plain /\ rendered.raised
                     THEN Raised("render", rendered.str, inner.logs, inner.invoked)
                 ELSE IF te.raised
                     THEN Raised("check", msg, inner.logs \o te.logs, inner.invoked)
                 ELSE Returned(retval, inner.logs \o te.logs, inner.invoked)

\* the unknown keyword reported without looking at va_kwargs
UnknownKeywordAlways(va_kwargs) == TRUE
\* "if k not in types: if not va_kwargs:" -- an unknown keyword is a violation
UnknownKeyword(va_kwargs) == ~va_kwargs

\* The checks params.deco.wrapper makes, in order: zip(args, arg_names), then
\* kwargs.items().  Each: whether it is a violation, the signature rendered
\* into its message, and the message.
ParamsChecks(w, args, kwargs) ==
    LET types == decos[w.deco].types
        arg_names == heap[w.fn].arg_names
        va_kwargs == heap[w.fn].va_kwargs
        n == IF Len(args) < Len(arg_names) THEN Len(args) ELSE Len(arg_names)
        positional == [i \in 1..n |->
            LET name == arg_names[i]
                rendered == _constraint_to_string(types[name])
            IN [violated |-> ~_verify_type_constraint(args[i], types[name]),
                renders |-> TRUE, rendered |-> rendered,
                msg |-> "argument " \o name \o " = " \o Repr(args[i])
                          \o " doesn't match signature " \o rendered.str]]
        keyword == [i \in 1..Len(kwargs) |->
            LET k == kwargs[i].name
                v == kwargs[i].value
            IN IF k \notin DOMAIN types
               THEN [violated |-> UnknownKeyword(va_kwargs), renders |-> FALSE, rendered |-> Rendered(""),
                     msg |-> "unknown keyword argument " \o k
                               \o " (positional specified as keyword?)"]
               ELSE LET rendered == _constraint_to_string(types[k])
                    IN [violated |-> ~_verify_type_constraint(v, types[k]),
                        renders |-> TRUE, rendered |-> rendered,
                        msg |-> "keyword argument " \o k \o " = " \o Repr(v)
                                  \o " doesn't match signature " \o rendered.str]]
    IN positional \o keyword

RECURSIVE ParamsWalk(_, _, _)
\* Walks the checks from the i-th on; logs are the entries emitted so far.
\* Ends raised, or not raised when every check is done.
ParamsWalk(checks, i, logs) ==
    IF i > Len(checks) THEN Returned(NoneObj, logs, <<>>)
    ELSE IF ~checks[i].violated THEN ParamsWalk(checks, i + 1, logs)
    ELSE IF checks[i].renders /\ checks[i].rendered.raised
        THEN Raised("render", checks[i].rendered.str, logs, <<>>)
    ELSE LET te == _type_error(checks[i].msg, FALSE, NoSite)
         IN IF te.raised THEN Raised("check", checks[i].msg, logs \o te.logs, <<>>)
            ELSE ParamsWalk(checks, i + 1, logs \o te.logs)

RECURSIVE wrapper(_, _, _, _)
\* Calling the function object heap[f] with (*args, **kwargs); ret is what
\* the user's function at the bottom returns in this call.
wrapper(f, args, kwargs, ret) ==
    LET w == heap[f] IN
    IF w.kind = "def" THEN CallDef(w, args, kwargs, ret)
    ELSE IF w.kind = "returns"
        THEN ReturnsCheck(w, wrapper(w.fn, args, kwargs, ret))
    ELSE LET walked == ParamsWalk(ParamsChecks(w, args, kwargs), 1, <<>>)
         IN IF walked.raised THEN walked
            ELSE LET inner == wrapper(w.fn, args, kwargs, ret)
                 IN [inner EXCEPT !.logs = walked.logs \o inner.logs]

----------------------------------------------------------------------------
(* The decorators.  Each operator takes the function objects h and the     *)
(* closures d it starts from and gives what it raised (if anything), the   *)
(* function objects and closures it leaves behind, and the object it made. *)

Done(h, d, made) == [raised |-> FALSE, msg |-> "", heap |-> h, decos |-> d, made |-> made]
Fail(msg, h, d) == [raised |-> TRUE, msg |-> msg, heap |-> h, decos |-> d, made |-> 0]

\* fn.__def_site__ = (fc.co_filename, fc.co_firstlineno, fn.__name__, '')
\* unless fn already has the attribute
SetDefSite(h, f) ==
    IF h[f].has_def_site THEN h
    ELSE [h EXCEPT ![f].has_def_site = TRUE,
                   ![f].def_site = [file |-> h[f].code.file, line |-> h[f].code.line,
                                    name |-> h[f].name, instr |-> ""]]

\* returns(return_type): the validity check, then the closure deco
returns(h, d, return_type) ==
    IF ~_check_constraint_validity(return_type)
    THEN Fail("Invalid type signature", h, d)
    ELSE Done(h, Append(d, ReturnsClosure(return_type)), Len(d) + 1)

\* the wrapper without "wrapper.__return_type__ = return_type"
ReturnsWrapperUnmarked(h, d, c, fn) ==
    [WrapperFunction("returns", ReturnsWrapperLine, fn, c) EXCEPT !.name = h[fn].name]
\* wrapper.__name__ = fn.__name__ ... wrapper.__return_type__ = return_type
ReturnsWrapper(h, d, c, fn) ==
    [WrapperFunction("returns", ReturnsWrapperLine, fn, c) EXCEPT
        !.name = h[fn].name,
        !.has_return_type = TRUE,
        !.return_type = d[c].return_type]

\* returns(...).deco(fn), c the closure
returns_deco(h, d, c, fn) ==
    LET h1 == SetDefSite(h, fn)
    IN Done(Append(h1, ReturnsWrapper(h1, d, c, fn)), d, Len(h1) + 1)

\* params(**types): the validity check of every signature, then the closure
params(h, d, types) ==
    IF \E n \in DOMAIN types : ~_check_constraint_validity(types[n])
    THEN Fail("Invalid type signature", h, d)
    ELSE Done(h, Append(d, ParamsClosure(types)), Len(d) + 1)

\* for arg in ['self', 'cls']: if arg in arg_names and arg not in types:
\*     types[arg] = object
ReceiverDefaults(types, arg_names) ==
    LET add == {arg \in {"self", "cls"} : arg \in Range(arg_names) /\ arg \notin DOMAIN types}
    IN [n \in DOMAIN types \cup add |-> IF n \in DOMAIN types THEN types[n] ELSE TypeObj("object")]

\* params.deco without its look at the marker
HasReturnTypeLost(h, fn) == FALSE
\* hasattr(fn, '__return_type__')
HasReturnType(h, fn) == h[fn].has_return_type

\* params(...).deco(fn), c the closure; types is the closure's dict itself
params_deco(h, d, c, fn) ==
    IF HasReturnType(h, fn)
    THEN Fail("You must use @returns before @params", h, d)
    ELSE LET h1 == SetDefSite(h, fn)
             arg_names == h1[fn].arg_names
             types == ReceiverDefaults(d[c].types, arg_names)
             d1 == [d EXCEPT ![c].types = types]
         IN IF \/ \E arg \in DOMAIN types : arg \notin Range(arg_names)
               \/ \E i \in 1..Len(arg_names) : arg_names[i] \notin DOMAIN types
            THEN Fail("Annotation doesn't match function signature", h1, d1)
            ELSE Done(Append(h1, [WrapperFunction("params", ParamsWrapperLine, fn, c)
                                     EXCEPT !.name = h1[fn].name]),
                      d1, Len(h1) + 1)

\* bool(obj), as "if return_type:" and "if param_types:" take it
Truthy(v) ==
    CASE v.kind = "none" -> FALSE
      [] v.kind \in {"list", "tuple", "set", "dict", "str"} -> Len(v.args) > 0 \/ v.name # ""
      [] v.kind = "int" -> v.name # "0"
      [] v.kind = "bool" -> v.name = "True"
      [] OTHER -> TRUE

\* typed(fn)
typed(h, d, fn) ==
    IF ~h[fn].has_annotations
    THEN Fail("Function not annotated with Python3 annotations", h, d)
    ELSE
    LET ann == h[fn].annotations
        has_return == "return" \in DOMAIN ann /\ Truthy(ann["return"])
        return_type == IF "return" \in DOMAIN ann THEN ann["return"] ELSE NoneObj
        param_types == [n \in (IF has_return THEN DOMAIN ann \ {"return"} ELSE DOMAIN ann)
                           |-> ann[n]]
        \* if param_types: fn = params(**param_types)(fn)
        p1 == IF DOMAIN param_types = {} THEN Done(h, d, fn)
              ELSE LET mk == params(h, d, param_types)
                   IN IF mk.raised THEN mk
                      ELSE params_deco(mk.heap, mk.decos, mk.made, fn)
        \* if return_type: fn = returns(return_type)(fn)
        p2 == IF p1.raised \/ ~has_return THEN p1
              ELSE LET mk == returns(p1.heap, p1.decos, return_type)
                   IN IF mk.raised THEN mk
                      ELSE returns_deco(mk.heap, mk.decos, mk.made, p1.made)
    IN  IF p2.raised
        THEN \* what typed made is garbage; fn keeps the attribute set on it
             Fail(p2.msg, [h EXCEPT ![fn] = p2.heap[fn]], d)
        ELSE \* fn.__annotations__ = {}
             Done([p2.heap EXCEPT ![p2.made].annotations = NoTypes], p2.decos, p2.made)

----------------------------------------------------------------------------
(* Programs: user functions, the decorators applied to them, calls *)

MaxClosures == 1    \* closures the program makes and keeps, besides void
MaxWrappers == 2    \* wrapper function objects made

int == TypeObj("int")
str == TypeObj("str")
object == TypeObj("object")

\* def double(a, *, scale=1)
double == DefFunction("double", "app.py", 10, <<"a">>, {"scale"}, FALSE, NoTypes)
\* def method(self, a: int) -> int
method == DefFunction("method", "app.py", 20, <<"self", "a">>, {}, FALSE,
                      ("a" :> int) @@ ("return" :> int))
\* def extras(a, **kw)
extras == DefFunction("extras", "app.py", 30, <<"a">>, {}, TRUE, NoTypes)

\* signatures handed to returns(...)
ReturnSigs ==
    { int, Union(<<>>), Enum(<<>>),
      ListObj(<<>>), ListObj(<<int, str>>), SetObj(<<>>),
      DictObj(<<>>), DictObj(<<ItemObj(int, int), ItemObj(str, int)>>),
      TupleObj(<<int, ListObj(<<>>)>>), DictObj(<<ItemObj(str, SetObj(<<int, str>>))>>) }

\* keyword arguments handed to params(...)
ParamTypes ==
    { ("a" :> int),
      ("a" :> ListObj(<<>>)),
      ("a" :> int) @@ ("self" :> DictObj(<<>>)),
      ("a" :> TupleObj(<<Enum(<<>>)>>)) }

NoCall == [raised |-> FALSE, msg |-> "", by |-> "", retval |-> NoneObj,
           logs |-> <<>>, invoked |-> <<>>]
\* The record of one operation: what it was given (sigs: the signatures or
\* annotations; deco, fn: the closure and function object; args, kwargs, ret:
\* a call's arguments and what the user's function returns in it) and what
\* came of it (raised, msg, made: the object made; call: the call's outcome)
Last(op, r, sigs, c, f, call, args, kwargs, ret) ==
    [op |-> op, raised |-> r.raised, msg |-> r.msg, made |-> r.made,
     sigs |-> sigs, deco |-> c, fn |-> f, call |-> call,
     args |-> args, kwargs |-> kwargs, ret |-> ret]
Imported == [op |-> "import", raised |-> FALSE, msg |-> "", made |-> 0,
             sigs |-> {}, deco |-> 0, fn |-> 0, call |-> NoCall,
             args |-> <<>>, kwargs |-> <<>>, ret |-> NoneObj]

InitPure ==
    /\ sig = NoneObj
    /\ val = NoneObj
    /\ out = [op |-> "none", ok |-> FALSE, str |-> ""]

\* The module just imported (_loglevel = None, _exception = TypeError,
\* void = returns(type(None))) and the user's functions defined
Init ==
    /\ InitPure
    /\ loglevel = "None"
    /\ exception = "TypeError"
    /\ heap = <<double, method>>
    /\ decos = <<ReturnsClosure(NoneType)>>
    /\ held = {void}
    /\ last = Imported

Wrappers == {f \in 1..Len(heap) : heap[f].kind # "def"}

\* d = returns(return_type)
Returns(return_type) ==
    /\ Cardinality(held) < MaxClosures + 1
    /\ LET r == returns(heap, decos, return_type)
       IN /\ heap' = r.heap
          /\ decos' = r.decos
          /\ held' = IF r.raised THEN held ELSE held \cup {r.made}
          /\ last' = Last("returns", r, {return_type}, 0, 0, NoCall, <<>>, <<>>, NoneObj)
    /\ UNCHANGED <<loglevel, exception, pureVars>>

\* d = params(**types)
Params(types) ==
    /\ Cardinality(held) < MaxClosures + 1
    /\ LET r == params(heap, decos, types)
       IN /\ heap' = r.heap
          /\ decos' = r.decos
          /\ held' = IF r.raised THEN held ELSE held \cup {r.made}
          /\ last' = Last("params", r, {types[n] : n \in DOMAIN types}, 0, 0, NoCall, <<>>, <<>>, NoneObj)
    /\ UNCHANGED <<loglevel, exception, pureVars>>

\* w = d(fn) for a closure d the program kept
Decorate(c, fn) ==
    /\ Cardinality(Wrappers) < MaxWrappers
    /\ LET r == IF decos[c].kind = "returns" THEN returns_deco(heap, decos, c, fn)
                ELSE params_deco(heap, decos, c, fn)
       IN /\ heap' = r.heap
          /\ decos' = r.decos
          /\ last' = Last(decos[c].kind \o "_deco", r, {}, c, fn, NoCall, <<>>, <<>>, NoneObj)
    /\ UNCHANGED <<loglevel, exception, held, pureVars>>

\* w = typed(fn); the closures typed makes stay inside it
Typed(fn) ==
    /\ Cardinality(Wrappers) + 2 <= MaxWrappers
    /\ LET r == typed(heap, decos, fn)
       IN /\ heap' = r.heap
          /\ decos' = r.decos
          /\ last' = Last("typed", r, {heap[fn].annotations[n] : n \in DOMAIN heap[fn].annotations},
                          0, fn, NoCall, <<>>, <<>>, NoneObj)
    /\ UNCHANGED <<loglevel, exception, held, pureVars>>

Next ==
    \/ \E return_type \in ReturnSigs : Returns(return_type)
    \/ \E types \in ParamTypes : Params(types)
    \/ \E c \in held, fn \in 1..Len(heap) : Decorate(c, fn)
    \/ \E fn \in 1..Len(heap) : Typed(fn)

Spec == Init /\ [][Next]_vars

----------------------------------------------------------------------------
(* A program that configures the module, defines one function, stacks      *)
(* decorators on it with the decorator syntax (each applied to the function *)
(* object the name is bound to so far) and calls it                        *)

\* signatures of the decorators stacked
StackReturnSigs == { int, ListObj(<<int>>) }
StackParamTypes == { ("a" :> int), ("a" :> Enum(<<StrObj("x"), IntObj("1")>>)) }

\* arguments and return values of calls
PosArgs == { <<IntObj("1")>>, <<StrObj("x")>>,
             <<StrObj("x"), IntObj("1")>>, <<IntObj("1"), StrObj("x")>> }
Kw(n, v) == [name |-> n, value |-> v]
KwArgs == { <<>>, <<Kw("zz", IntObj("1"))>>, <<Kw("zz", ListObj(<<StrObj("x")>>))>>,
            <<Kw("scale", IntObj("1"))>> }
RetVals == { IntObj("1"), StrObj("x"), NoneObj }

RECURSIVE Innermost(_, _)
\* the user's function at the bottom of the wrappers around h[f]
Innermost(h, f) == IF h[f].kind = "def" THEN f ELSE Innermost(h, h[f].fn)

\* the function object the function's name is bound to
Top == Len(heap)

InitCall ==
    /\ InitPure
    /\ loglevel \in {"None", "WARNING"}
    /\ exception \in {"None", "TypeError"}
    /\ heap \in {<<double>>, <<method>>, <<extras>>}
    /\ decos = <<ReturnsClosure(NoneType)>>
    /\ held = {void}
    /\ last = Imported

\* @returns(return_type) above the function
AtReturns(return_type) ==
    /\ Cardinality(Wrappers) < MaxWrappers
    /\ LET mk == returns(heap, decos, return_type)
           r == IF mk.raised THEN mk ELSE returns_deco(mk.heap, mk.decos, mk.made, Top)
       IN /\ heap' = r.heap
          /\ decos' = IF r.raised THEN decos ELSE r.decos  \* else the closure is garbage
          /\ last' = Last("@returns", r, {return_type}, 0, Top, NoCall, <<>>, <<>>, NoneObj)
    /\ UNCHANGED <<loglevel, exception, held, pureVars>>

\* @params(**types) above the function
AtParams(types) ==
    /\ Cardinality(Wrappers) < MaxWrappers
    /\ LET mk == params(heap, decos, types)
           r == IF mk.raised THEN mk ELSE params_deco(mk.heap, mk.decos, mk.made, Top)
       IN /\ heap' = r.heap
          /\ decos' = IF r.raised THEN decos ELSE r.decos  \* else the closure is garbage
          /\ last' = Last("@params", r, {types[n] : n \in DOMAIN types}, 0, Top,
                          NoCall, <<>>, <<>>, NoneObj)
    /\ UNCHANGED <<loglevel, exception, held, pureVars>>

\* name(*args, **kwargs) with every declared positional parameter passed
\* positionally, the user's function returning ret
Call(args, kwargs, ret) ==
    /\ Len(args) = Len(heap[Innermost(heap, Top)].arg_names)
    /\ last' = Last("call", Done(heap, decos, 0), {}, 0, Top,
                    wrapper(Top, args, kwargs, ret), args, kwargs, ret)
    /\ UNCHANGED <<loglevel, exception, heap, decos, held, pureVars>>

NextCall ==
    \/ \E return_type \in StackReturnSigs : AtReturns(return_type)
    \/ \E types \in StackParamTypes : AtParams(types)
    \/ Decorate(void, Top)
    \/ \E args \in PosArgs, kwargs \in KwArgs, ret \in RetVals : Call(args, kwargs, ret)

SpecCall == InitCall /\ [][NextCall]_vars

----------------------------------------------------------------------------
(* The pure functions on their own: a signature (well-formed or not) is    *)
(* validity-checked and rendered; a value is matched against a signature   *)

MaxSigDepth == 2    \* nesting depth of the signatures tried
MaxItems == 2       \* items of the dict values tried

SigLeaves == { int, str, StrObj("Foo"), IntObj("1"), NoneObj }

RECURSIVE Hashable(_)
\* dict keys and set members are hashable: no list, dict or set inside
Hashable(t) ==
    /\ t.kind \notin {"list", "dict", "set"}
    /\ t.kind = "tuple" => \A i \in 1..Len(t.args) : Hashable(t.args[i])

\* every container form over the signatures S: empty, one member, two members
Containers(S) ==
    {ListObj(<<>>), TupleObj(<<>>), DictObj(<<>>), SetObj(<<>>), Union(<<>>), Enum(<<>>)}
    \cup {ListObj(<<s>>) : s \in S} \cup {ListObj(<<s, int>>) : s \in S}
    \cup {TupleObj(<<s>>) : s \in S} \cup {TupleObj(<<int, s>>) : s \in S}
    \cup {DictObj(<<ItemObj(str, s)>>) : s \in S}
    \cup {DictObj(<<ItemObj(s, int)>>) : s \in {x \in S : Hashable(x)}}
    \cup {DictObj(<<ItemObj(int, s), ItemObj(str, s)>>) : s \in S}
    \cup {SetObj(<<s>>) : s \in {x \in S : Hashable(x)}}
    \cup {SetObj(<<s, StrObj("Bar")>>) : s \in {x \in S : Hashable(x)}}
    \cup {Union(<<s>>) : s \in S} \cup {Nullable(s) : s \in S}
    \cup {Enum(<<s>>) : s \in S} \cup {Enum(<<StrObj("red"), s>>) : s \in S}

RECURSIVE Sigs(_)
Sigs(depth) ==
    IF depth = 0 THEN SigLeaves
    ELSE LET S == Sigs(depth - 1) IN S \cup Containers(S)

NoOut == [op |-> "none", ok |-> FALSE, str |-> ""]

InitSig ==
    /\ sig \in Sigs(MaxSigDepth)
    /\ val = NoneObj
    /\ out = NoOut
    /\ loglevel = "None"
    /\ exception = "TypeError"
    /\ heap = <<double, method>>
    /\ decos = <<ReturnsClosure(NoneType)>>
    /\ held = {void}
    /\ last = Imported

\* _check_constraint_validity(sig)
CheckValidity ==
    /\ out' = [op |-> "validity", ok |-> _check_constraint_validity(sig), str |-> ""]
    /\ UNCHANGED <<sig, val, progVars>>

\* _constraint_to_string(sig)
Describe ==
    /\ LET r == _constraint_to_string(sig)
       IN out' = [op |-> "describe", ok |-> ~r.raised, str |-> r.str]
    /\ UNCHANGED <<sig, val, progVars>>

NextSig == CheckValidity \/ Describe

SpecSig == InitSig /\ [][NextSig]_vars

\* the signatures the validity check lets through, the only ones matched
WellFormed(depth) == {s \in Sigs(depth) : _check_constraint_validity(s)}

KeySigs == { str, int, StrObj("str") }
MappingSigs ==
    {DictObj(<<ItemObj(k, v)>>) : k \in KeySigs, v \in WellFormed(MaxSigDepth - 1)}

DictKeys == <<StrObj("a"), StrObj("b"), IntObj("1")>>
ItemVals == { IntObj("1"), StrObj("x"), MockObj, ListObj(<<>>),
              ListObj(<<IntObj("1"), IntObj("2")>>),
              ListObj(<<IntObj("1"), StrObj("x")>>) }

RECURSIVE ItemsOf(_, _)
\* the items of the dict with keys DictKeys[i], i in ks, and values f[i],
\* in the order of DictKeys
ItemsOf(ks, f) ==
    IF ks = {} THEN <<>>
    ELSE LET i == CHOOSE j \in ks : \A k \in ks : j <= k
         IN <<ItemObj(DictKeys[i], f[i])>> \o ItemsOf(ks \ {i}, f)

MappingVals ==
    UNION { {DictObj(ItemsOf(ks, f)) : f \in [ks -> ItemVals]} :
            ks \in {k \in SUBSET (1..Len(DictKeys)) : Cardinality(k) <= MaxItems} }

InitMatch ==
    /\ sig \in MappingSigs
    /\ val \in MappingVals
    /\ out = NoOut
    /\ loglevel = "None"
    /\ exception = "TypeError"
    /\ heap = <<double, method>>
    /\ decos = <<ReturnsClosure(NoneType)>>
    /\ held = {void}
    /\ last = Imported

\* _verify_type_constraint(val, sig)
Verify ==
    /\ out' = [op |-> "verify", ok |-> _verify_type_constraint(val, sig), str |-> ""]
    /\ UNCHANGED <<sig, val, progVars>>

SpecMatch == InitMatch /\ [][Verify]_vars

----------------------------------------------------------------------------
(* Properties *)

RECURSIVE Malformed(_)
\* t holds, at some depth, a list or set signature without exactly one
\* element, a dict signature without exactly one item, or an empty Union/Enum
Malformed(t) ==
    \/ t.kind \in {"list", "set", "dict"} /\ Len(t.args) # 1
    \/ t.kind \in {"Union", "Enum"} /\ Len(t.args) = 0
    \/ \E i \in 1..Len(t.args) : Malformed(t.args[i])

\* C1: returns(...) or params(...) given a signature that is malformed at any
\* depth (list/set/dict without exactly one member, empty Union/Enum) raises
\* the invalid-signature error and makes no closure, hence no wrapper.
C1_MalformedRejected ==
    (last.op \in {"returns", "params"} /\ \E t \in last.sigs : Malformed(t))
        => (last.raised /\ last.msg = "Invalid type signature" /\ last.made = 0)

\* C2: a dict value matches a well-formed {K:V} exactly when it is empty or
\* every key matches K and every value matches V.
C2_MappingMatch ==
    out.op = "verify" =>
        LET K == sig.args[1].args[1]
            V == sig.args[1].args[2]
        IN out.ok = ( \/ Len(val.args) = 0
                      \/ \A i \in 1..Len(val.args) :
                            /\ _verify_type_constraint(val.args[i].args[1], K)
                            /\ _verify_type_constraint(val.args[i].args[2], V) )

\* {str: [int]} accepts {"a": [1, 2], "b": []}
C2_Witness ==
    /\ out.op = "verify" /\ out.ok
    /\ sig = DictObj(<<ItemObj(str, ListObj(<<int>>))>>)
    /\ val = DictObj(<<ItemObj(StrObj("a"), ListObj(<<IntObj("1"), IntObj("2")>>)),
                       ItemObj(StrObj("b"), ListObj(<<>>))>>)

\* C3 as stated: returns' closure applied to a params wrapper raises, and
\* params' closure applied to a returns wrapper succeeds.
C3_ReturnsOnParamsFails ==
    /\ (last.op = "returns_deco" /\ heap[last.fn].kind = "params") => last.raised
    /\ (last.op = "params_deco" /\ heap[last.fn].kind = "returns") => ~last.raised

\* C3 amended: params' closure applied to a returns wrapper raises the
\* ordering error and makes nothing; returns' closure applied to a params
\* wrapper succeeds and makes the returns wrapper around it.
C3_ParamsOnReturnsFails ==
    /\ (last.op = "params_deco" /\ heap[last.fn].kind = "returns")
          => /\ last.raised
             /\ last.msg = "You must use @returns before @params"
             /\ last.made = 0
    /\ (last.op = "returns_deco" /\ heap[last.fn].kind = "params")
          => /\ ~last.raised
             /\ last.made = Len(heap)
             /\ heap[last.made].kind = "returns"
             /\ heap[last.made].fn = last.fn

C3_Witness ==
    /\ last.op = "params_deco" /\ heap[last.fn].kind = "returns" /\ last.raised
    /\ last.msg = "You must use @returns before @params"

\* C4: every returns wrapper carries the __return_type__ marker with its
\* closure's signature; params' closure applied to a function object with the
\* marker raises and makes nothing; so no params wrapper is directly around a
\* returns wrapper.
C4_MarkerOrdering ==
    /\ \A w \in 1..Len(heap) : heap[w].kind = "returns" =>
          /\ heap[w].has_return_type
          /\ heap[w].return_type = decos[heap[w].deco].return_type
    /\ (last.op = "params_deco" /\ heap[last.fn].has_return_type)
          => (last.raised /\ last.made = 0)
    /\ \A w \in 1..Len(heap) : heap[w].kind = "params" => heap[heap[w].fn].kind # "returns"

\* a returns wrapper around a params wrapper: the return check is the outer
C4_Witness ==
    \E w \in 1..Len(heap) :
        /\ heap[w].kind = "returns" /\ heap[w].has_return_type
        /\ heap[heap[w].fn].kind = "params"

\* C5: the types map a params wrapper consults never changes once the
\* wrapper exists.
C5_TypesFrozen ==
    [][\A w \in 1..Len(heap) :
          heap[w].kind = "params" => decos'[heap[w].deco].types = decos[heap[w].deco].types]_vars

\* C6: a returns wrapper around a params wrapper reports, as its definition
\* site (fn.__def_site__ of the function it wraps), the definition site
\* captured for the user's function.
C6_DefSiteReused ==
    \A w \in 1..Len(heap) :
        (heap[w].kind = "returns" /\ heap[heap[w].fn].kind = "params")
            => heap[heap[w].fn].def_site = heap[Innermost(heap, w)].def_site

\* the checks of the last call other than the unknown keywords all pass
OthersValid ==
    LET w == heap[last.fn]
        types == decos[w.deco].types
        arg_names == heap[w.fn].arg_names
    IN /\ \A i \in 1..Len(last.args) :
             _verify_type_constraint(last.args[i], types[arg_names[i]])
       /\ \A i \in 1..Len(last.kwargs) :
             last.kwargs[i].name \in DOMAIN types
                 => _verify_type_constraint(last.kwargs[i].value, types[last.kwargs[i].name])

UnknownKw ==
    {i \in 1..Len(last.kwargs) :
        last.kwargs[i].name \notin DOMAIN decos[heap[last.fn].deco].types}

\* C7: with an exception configured, a call of a params wrapper with a
\* keyword that has no signature raises from the check, before the function
\* runs, when the function takes no **kwargs -- with the unknown-keyword
\* message when nothing checked before it fails -- and, when the function
\* takes **kwargs, the keyword is not checked: the call returns what the
\* function returns, whatever the keyword's value.
C7_UnknownKeyword ==
    (last.op = "call" /\ heap[last.fn].kind = "params" /\ exception # "None"
       /\ UnknownKw # {})
    => IF ~heap[heap[last.fn].fn].va_kwargs
       THEN /\ last.call.raised /\ last.call.by = "check" /\ last.call.invoked = <<>>
            /\ OthersValid =>
                  \E i \in UnknownKw :
                      last.call.msg = "unknown keyword argument " \o last.kwargs[i].name
                                         \o " (positional specified as keyword?)"
       ELSE OthersValid =>
               /\ ~last.call.raised
               /\ last.call.retval = last.ret
               /\ last.call.invoked = <<[args |-> last.args, kwargs |-> last.kwargs]>>

C7_Witness ==
    /\ last.op = "call" /\ heap[last.fn].kind = "params" /\ exception # "None"
    /\ last.kwargs = <<Kw("zz", ListObj(<<StrObj("x")>>))>>
    /\ ~heap[heap[last.fn].fn].va_kwargs
    /\ OthersValid
    /\ last.call.raised
    /\ last.call.msg = "unknown keyword argument zz (positional specified as keyword?)"

\* some check of the last call found a violation
RECURSIVE Violation(_, _)
Violation(f, retval) ==
    LET w == heap[f] IN
    CASE w.kind = "def" -> FALSE
      [] w.kind = "returns" ->
            \/ ~_verify_type_constraint(retval, decos[w.deco].return_type)
            \/ Violation(w.fn, retval)
      [] w.kind = "params" ->
            \/ \E i \in 1..Len(last.args) :
                  ~_verify_type_constraint(last.args[i],
                        decos[w.deco].types[heap[w.fn].arg_names[i]])
            \/ \E i \in 1..Len(last.kwargs) :
                  IF last.kwargs[i].name \in DOMAIN decos[w.deco].types
                  THEN ~_verify_type_constraint(last.kwargs[i].value,
                            decos[w.deco].types[last.kwargs[i].name])
                  ELSE ~heap[w.fn].va_kwargs
            \/ Violation(w.fn, retval)

\* C8: with neither logging nor an exception configured, a call logs
\* nothing, raises nothing from the checks, and does exactly what calling the
\* user's function with the same arguments does: one invocation with the
\* arguments unchanged, its return value passed on unchanged.
C8_SilentWhenUnconfigured ==
    (last.op = "call" /\ loglevel = "None" /\ exception = "None")
    => /\ last.call.logs = <<>>
       /\ last.call.by \notin {"check", "render"}
       /\ last.call = CallDef(heap[Innermost(heap, last.fn)], last.args, last.kwargs, last.ret)

\* an argument and the return value both violate their signatures, and the
\* call still returns the function's value after one invocation
C8_Witness ==
    /\ last.op = "call" /\ loglevel = "None" /\ exception = "None"
    /\ heap[last.fn].kind = "returns" /\ heap[heap[last.fn].fn].kind = "params"
    /\ Violation(heap[last.fn].fn, last.ret)
    /\ ~_verify_type_constraint(last.ret, decos[heap[last.fn].deco].return_type)
    /\ ~last.call.raised
    /\ last.call.retval = last.ret
    /\ Len(last.call.invoked) = 1

\* C9: _constraint_to_string returns a string, and does not raise, for every
\* signature the validity check accepts.
C9_DescribeTotal ==
    (out.op = "describe" /\ _check_constraint_validity(sig))
        => (out.ok /\ out.str \in STRING /\ out.str # "")

\* a valid signature nested two deep with an Enum inside is rendered
C9_Witness ==
    /\ out.op = "describe" /\ _check_constraint_validity(sig)
    /\ sig = DictObj(<<ItemObj(str, Enum(<<StrObj("red"), StrObj("Foo")>>))>>)
    /\ out.str = "{str:Enum[red, Foo]}"

\* C10: typed applied to a function without any annotation raises; it
\* succeeds only for a function with at least one annotation.
C10_TypedNeedsAnnotation ==
    last.op = "typed" =>
        /\ last.sigs = {} => last.raised
        /\ ~last.raised => last.sigs # {}

====
